---- MODULE Spec2Model ----
(***************************************************************************)
(* heroku_rs: the generic request path of the client.                      *)
(*                                                                         *)
(*   framework/auth.rs          Credentials::headers, AuthClient::auth     *)
(*   framework/response/mod.rs  match_response, match_raw_response, Empty  *)
(*   endpoints/*/post.rs        the endpoint descriptors (method/path/body)*)
(*                                                                         *)
(* Strings whose content matters (the token, the header value) are         *)
(* sequences of one-character strings, so that format!("Bearer {}", t) is  *)
(* a concatenation that can be taken apart again.  A response body is the  *)
(* text received: nothing at all, text that is not JSON, or a JSON value.  *)
(***************************************************************************)
EXTENDS Integers, Sequences, FiniteSets, TLC

VARIABLES
    credentials,   \* the client's Credentials value, shared by all requests
    pc,            \* position of the executor inside one invocation
    endpoint,      \* the endpoint descriptor handed to the executor
    resultType,    \* the declared success type T of the invocation
    request,       \* the RequestBuilder under construction
    wire,          \* requests put on the network by the current invocation
    response,      \* the reqwest::blocking::Response received
    mode,          \* "typed" (match_response) or "raw" (match_raw_response)
    result,        \* what the invocation hands back to the caller
    trace,         \* the steps the current invocation has performed, in order
    calls,         \* number of invocations started so far
    builder,       \* the descriptor a caller is filling through its setters
    built,         \* the descriptors build() has returned, oldest first
    ops            \* the calls made on the builder since new, in order

vars == <<credentials, pc, endpoint, resultType, request, wire, response,
          mode, result, trace, calls, builder, built, ops>>

\* the state of the executor, and the state of the caller's builder
evars == <<credentials, pc, endpoint, resultType, request, wire, response,
           mode, result, trace, calls>>

bvars == <<builder, built, ops>>

(***************************************************************************)
(* Bounds                                                                  *)
(***************************************************************************)
MaxTokenLen == 1     \* longest token drawn for the credential
MaxItems    == 1     \* longest JSON array drawn as a response body
MaxCalls    == 2     \* invocations of the executor in one behaviour

(***************************************************************************)
(* Option values                                                           *)
(***************************************************************************)
None == [some |-> FALSE]

Some(v) == [some |-> TRUE, v |-> v]

(***************************************************************************)
(* framework/auth.rs                                                       *)
(***************************************************************************)
TokenChars == {"k", " "}

Tokens == UNION {[1..n -> TokenChars] : n \in 0..MaxTokenLen}

UserAuthToken(t) == [tag |-> "UserAuthToken", token |-> t]

BearerPrefix == <<"B", "e", "a", "r", "e", "r", " ">>

\* headers without the separating space after the scheme
headers_nospace(c) ==
    CASE c.tag = "UserAuthToken" ->
        << <<"Authorization", <<"B", "e", "a", "r", "e", "r">> \o c.token>> >>

\* Credentials::headers: one (name, value) pair per credential kind.
headers(c) ==
    CASE c.tag = "UserAuthToken" ->
        << <<"Authorization", BearerPrefix \o c.token>> >>

\* RequestBuilder::header appends the pair to the request's header list.
header(req, k, v) == [req EXCEPT !.headers = Append(@, <<k, v>>)]

RECURSIVE authLoop(_, _)
authLoop(req, hs) ==
    IF hs = <<>> THEN req
    ELSE authLoop(header(req, Head(hs)[1], Head(hs)[2]), Tail(hs))

\* auth that runs the loop over the headers a second time
auth_twice(req, c) == authLoop(authLoop(req, headers(c)), headers(c))

\* auth that returns the builder without attaching anything
auth_none(req, c) == req

\* AuthClient::auth for RequestBuilder: every header of the credential, once.
auth(req, c) == authLoop(req, headers(c))

(***************************************************************************)
(* Response bodies                                                         *)
(***************************************************************************)
JNull == [k |-> "null"]

JObj(f) == [k |-> "obj", f |-> f]

JArr(items) == [k |-> "arr", items |-> items]

JStr(v) == [t |-> "str", v |-> v]

JNum(v) == [t |-> "num", v |-> v]

JFieldNull == [t |-> "null", v |-> ""]

ObjKeys == {"id", "message", "url"}

FieldVals == {JStr("not_found"), JStr("gone"), JNum("7"), JFieldNull}

JObjects == {JObj(f) : f \in UNION {[D -> FieldVals] : D \in SUBSET ObjKeys}}

ArrItems == {JObj(<<>>), JArr(<<>>), JNull}

JArrays == {JArr(s) : s \in UNION {[1..n -> ArrItems] : n \in 0..MaxItems}}

JsonValues == {JNull} \cup JObjects \cup JArrays

EmptyBody == [kind |-> "empty"]

GarbageBody == [kind |-> "garbage"]

JsonBody(j) == [kind |-> "json", json |-> j]

Bodies == {EmptyBody, GarbageBody} \cup {JsonBody(j) : j \in JsonValues}

Statuses == {199, 200, 204, 299, 300, 404, 500}

Responses == [status : Statuses, body : Bodies]

NoResponse == [status |-> 0, body |-> EmptyBody]

(***************************************************************************)
(* Deserialization targets                                                 *)
(***************************************************************************)
ResultTypes == {"Empty", "Unit", "VecEmpty", "Addon"}

ParseOk(v) == [ok |-> TRUE, value |-> v]

ParseErr(e) == [ok |-> FALSE, err |-> e]

\* Fields of the struct targets: String fields are required, Option<String>
\* fields may be absent or null.
RequiredFields(T) ==
    CASE T = "Addon" -> {"id"}
      [] T = "HerokuApiError" -> {"id", "message"}
      [] OTHER -> {}

OptionalFields(T) ==
    CASE T = "HerokuApiError" -> {"url"}
      [] OTHER -> {}

\* The default value of HerokuApiError: every field empty.
DefaultError == [type |-> "HerokuApiError", id |-> "", message |-> "", url |-> None]

EmptyValue == [type |-> "Empty"]

UnitValue == [type |-> "Unit"]

\* One field of a derived struct, read from a JSON object.
FieldOk(f, name, required) ==
    IF name \in DOMAIN f
    THEN f[name].t = "str" \/ (~required /\ f[name].t = "null")
    ELSE ~required

FieldValue(f, name, required) ==
    IF required THEN f[name].v
    ELSE IF name \in DOMAIN f /\ f[name].t = "str" THEN Some(f[name].v) ELSE None

\* #[derive(Deserialize)] on a struct with named fields, from a JSON object:
\* unknown keys are ignored, a missing or mistyped field is a data error.
DeserializeStruct(T, f) ==
    IF /\ \A n \in RequiredFields(T) : FieldOk(f, n, TRUE)
       /\ \A n \in OptionalFields(T) : FieldOk(f, n, FALSE)
    THEN ParseOk([n \in {"type"} \cup RequiredFields(T) \cup OptionalFields(T) |->
                    IF n = "type" THEN T
                    ELSE FieldValue(f, n, n \in RequiredFields(T))])
    ELSE ParseErr("data")

\* #[derive(Deserialize)] struct Empty {}: a struct without fields is read
\* from any JSON object and from the empty JSON array.
DeserializeEmpty(j) ==
    CASE j.k = "obj" -> ParseOk(EmptyValue)
      [] j.k = "arr" -> IF j.items = <<>> THEN ParseOk(EmptyValue) ELSE ParseErr("data")
      [] OTHER -> ParseErr("data")

\* serde_json::from_slice::<T> on a JSON value.
FromJson(T, j) ==
    CASE T = "Empty" -> DeserializeEmpty(j)
      [] T = "Unit" -> IF j.k = "null" THEN ParseOk(UnitValue) ELSE ParseErr("data")
      [] T = "VecEmpty" ->
            IF j.k = "arr" /\ \A i \in DOMAIN j.items : DeserializeEmpty(j.items[i]).ok
            THEN ParseOk([type |-> "VecEmpty",
                          items |-> [i \in DOMAIN j.items |-> EmptyValue]])
            ELSE ParseErr("data")
      [] OTHER ->
            \* a struct with at least one required field: no array of
            \* ArrItems supplies it, JSON null is not a struct
            IF j.k = "obj" THEN DeserializeStruct(T, j.f) ELSE ParseErr("data")

\* Response::json::<T>(): the whole body is read and handed to serde_json.
json(T, body) ==
    CASE body.kind = "empty" -> ParseErr("eof")
      [] body.kind = "garbage" -> ParseErr("syntax")
      [] OTHER -> FromJson(T, body.json)

(***************************************************************************)
(* framework/response/mod.rs                                               *)
(***************************************************************************)
Ok(v) == [kind |-> "Ok", value |-> v]

Invalid(e) == [kind |-> "Invalid", err |-> e]

Error(s, e) == [kind |-> "Error", status |-> s, error |-> e]

\* is_success without its lower end
is_success_nolower(s) == 300 > s

\* StatusCode::is_success
is_success(s) == 300 > s /\ s >= 200

\* unwrap_or_default that drops the parsed envelope
unwrap_or_default_always(parsed) == DefaultError

\* Result::unwrap_or_default
unwrap_or_default(parsed) == IF parsed.ok THEN parsed.value ELSE DefaultError

\* match_response with the status test inverted
match_response_inverted(T, api_response) ==
    LET api_status == api_response.status IN
    IF ~is_success(api_status)
    THEN LET parsed_response == json(T, api_response.body) IN
         IF parsed_response.ok
         THEN Ok(parsed_response.value)
         ELSE Invalid(parsed_response.err)
    ELSE LET parsed == json("HerokuApiError", api_response.body)
             errors == unwrap_or_default(parsed) IN
         Error(api_status, errors)

\* match_response that reports an unparseable success body as an API error
match_response_lenient(T, api_response) ==
    LET api_status == api_response.status
        parsed_response == json(T, api_response.body) IN
    IF is_success(api_status) /\ parsed_response.ok
    THEN Ok(parsed_response.value)
    ELSE LET parsed == json("HerokuApiError", api_response.body)
             errors == unwrap_or_default(parsed) IN
         Error(api_status, errors)

\* match_response that tries the success type first, whatever the status
match_response_eager(T, api_response) ==
    LET api_status == api_response.status
        parsed_response == json(T, api_response.body) IN
    IF parsed_response.ok
    THEN Ok(parsed_response.value)
    ELSE IF is_success(api_status)
    THEN Invalid(parsed_response.err)
    ELSE LET parsed == json("HerokuApiError", api_response.body)
             errors == unwrap_or_default(parsed) IN
         Error(api_status, errors)

match_response(T, api_response) ==
    LET api_status == api_response.status IN
    IF is_success(api_status)
    THEN LET parsed_response == json(T, api_response.body) IN
         IF parsed_response.ok
         THEN Ok(parsed_response.value)
         ELSE Invalid(parsed_response.err)
    ELSE LET parsed == json("HerokuApiError", api_response.body)
             errors == unwrap_or_default(parsed) IN
         Error(api_status, errors)

\* match_raw_response that propagates the envelope's parse error
match_raw_response_propagate(api_response) ==
    LET api_status == api_response.status IN
    IF is_success(api_status)
    THEN Ok(api_response)
    ELSE LET parsed == json("HerokuApiError", api_response.body) IN
         IF parsed.ok THEN Error(api_status, parsed.value) ELSE Invalid(parsed.err)

\* match_raw_response that reads the success body before returning
match_raw_response_reads(api_response) ==
    LET api_status == api_response.status IN
    IF is_success(api_status)
    THEN IF json("Empty", api_response.body).ok
         THEN Ok([api_response EXCEPT !.body = EmptyBody])
         ELSE Invalid(json("Empty", api_response.body).err)
    ELSE LET parsed == json("HerokuApiError", api_response.body)
             errors == unwrap_or_default(parsed) IN
         Error(api_status, errors)

\* match_raw_response that does not read the body of a failure
match_raw_response_noparse(api_response) ==
    LET api_status == api_response.status IN
    IF is_success(api_status)
    THEN Ok(api_response)
    ELSE Error(api_status, DefaultError)

match_raw_response(api_response) ==
    LET api_status == api_response.status IN
    IF is_success(api_status)
    THEN Ok(api_response)
    ELSE LET parsed == json("HerokuApiError", api_response.body)
             errors == unwrap_or_default(parsed) IN
         Error(api_status, errors)

(***************************************************************************)
(* Endpoint descriptors handed to the executor                             *)
(***************************************************************************)
Ids == {"APP_ID"}

Users == {"user@example.com"}

CollaboratorCreateParams(user, silent) == [user |-> user, silent |-> silent]

CollaboratorCreate(app_id, params) ==
    [name |-> "CollaboratorCreate", id |-> app_id, params |-> Some(params)]

AddonActionProvision(addon_id) ==
    [name |-> "AddonActionProvision", id |-> addon_id, params |-> None]

Endpoints ==
    {AddonActionProvision(i) : i \in Ids}
    \cup {CollaboratorCreate(i, CollaboratorCreateParams(u, sl)) :
            i \in Ids, u \in Users, sl \in {None, Some(TRUE)}}

NoEndpoint == [name |-> "none", id |-> "", params |-> None]

method(e) == "Post"

\* the identifier with surrounding blanks removed
Trimmed(id) == IF id = " My App/1 " THEN "My App/1" ELSE id

\* path that trims the identifier before substituting it
path_trimmed(e) ==
    CASE e.name = "CollaboratorCreate" -> <<"apps/", Trimmed(e.id), "/collaborators">>
      [] e.name = "AddonActionProvision" -> <<"addons/", Trimmed(e.id), "/actions/provision">>
      [] e.name = "AddonActionDeprovision" -> <<"addons/", Trimmed(e.id), "/actions/deprovision">>
      [] e.name = "AddonCreate" -> <<"apps/", Trimmed(e.id), "/addons">>
      [] e.name = "AddonResolutionCreate" -> <<"actions/addons/resolve">>
      [] e.name = "AttachmentCreate" -> <<"addon-attachments">>
      [] e.name = "AttachmentResolutionCreate" -> <<"actions/addon-attachments/resolve">>
      [] e.name = "WebhookCreate" -> <<"addons/", Trimmed(e.id), "/webhooks">>
      [] e.name = "BuildCreate" -> <<"apps/", Trimmed(e.id), "/builds">>

\* format!: the literal pieces of the template around the identifier
path(e) ==
    CASE e.name = "CollaboratorCreate" -> <<"apps/", e.id, "/collaborators">>
      [] e.name = "AddonActionProvision" -> <<"addons/", e.id, "/actions/provision">>
      [] e.name = "AddonActionDeprovision" -> <<"addons/", e.id, "/actions/deprovision">>
      [] e.name = "AddonCreate" -> <<"apps/", e.id, "/addons">>
      [] e.name = "AddonResolutionCreate" -> <<"actions/addons/resolve">>
      [] e.name = "AttachmentCreate" -> <<"addon-attachments">>
      [] e.name = "AttachmentResolutionCreate" -> <<"actions/addon-attachments/resolve">>
      [] e.name = "WebhookCreate" -> <<"addons/", e.id, "/webhooks">>
      [] e.name = "BuildCreate" -> <<"apps/", e.id, "/builds">>

\* body(): Some(self.params.clone()), or the trait's default None
body(e) == e.params

(***************************************************************************)
(* The generic executor: one invocation is                                 *)
(*   build request -> attach auth -> attach body if present -> send ->     *)
(*   classify response                                                     *)
(***************************************************************************)
NoRequest == [method |-> "none", path |-> <<>>, headers |-> <<>>, body |-> None]

NoResult == [kind |-> "none"]

Init ==
    /\ credentials \in {UserAuthToken(t) : t \in Tokens}
    /\ pc = "idle"
    /\ endpoint = NoEndpoint
    /\ resultType = "Unit"
    /\ request = NoRequest
    /\ wire = <<>>
    /\ response = NoResponse
    /\ mode = "typed"
    /\ result = NoResult
    /\ trace = <<>>
    /\ calls = 0
    /\ builder = NoEndpoint
    /\ built = <<>>
    /\ ops = <<>>

\* The caller hands a descriptor with declared success type T to the
\* executor, which starts a request from the descriptor's method and path.
BuildRequest ==
    /\ pc = "idle"
    /\ calls < MaxCalls
    /\ \E e \in Endpoints, T \in ResultTypes, m \in {"typed", "raw"} :
          /\ endpoint' = e
          /\ resultType' = T
          /\ mode' = m
          /\ request' = [method |-> method(e), path |-> path(e),
                         headers |-> <<>>, body |-> None]
    /\ wire' = <<>>
    /\ response' = NoResponse
    /\ result' = NoResult
    /\ trace' = <<"build">>
    /\ calls' = calls + 1
    /\ pc' = "built"
    /\ UNCHANGED credentials
    /\ UNCHANGED bvars

AttachAuth ==
    /\ pc = "built"
    /\ request' = auth(request, credentials)
    /\ trace' = Append(trace, "auth")
    /\ pc' = "authed"
    /\ UNCHANGED <<credentials, endpoint, resultType, wire, response, mode,
                   result, calls>>
    /\ UNCHANGED bvars

AttachBody ==
    /\ pc = "authed"
    /\ request' = IF body(endpoint).some
                  THEN [request EXCEPT !.body = body(endpoint)]
                  ELSE request
    /\ trace' = Append(trace, "body")
    /\ pc' = "ready"
    /\ UNCHANGED <<credentials, endpoint, resultType, wire, response, mode,
                   result, calls>>
    /\ UNCHANGED bvars

\* The blocking network call: the request goes out, some response comes back.
Send ==
    /\ pc = "ready"
    /\ wire' = Append(wire, request)
    /\ response' \in Responses
    /\ trace' = Append(trace, "send")
    /\ pc' = "sent"
    /\ UNCHANGED <<credentials, endpoint, resultType, request, mode, result,
                   calls>>
    /\ UNCHANGED bvars

Classify ==
    /\ pc = "sent"
    /\ mode = "typed"
    /\ result' = match_response(resultType, response)
    /\ trace' = Append(trace, "classify")
    /\ pc' = "done"
    /\ UNCHANGED <<credentials, endpoint, resultType, request, wire, response,
                   mode, calls>>
    /\ UNCHANGED bvars

ClassifyRaw ==
    /\ pc = "sent"
    /\ mode = "raw"
    /\ result' = match_raw_response(response)
    /\ trace' = Append(trace, "classify")
    /\ pc' = "done"
    /\ UNCHANGED <<credentials, endpoint, resultType, request, wire, response,
                   mode, calls>>
    /\ UNCHANGED bvars

\* The result is returned to the caller; the descriptor, the request and the
\* response of the invocation are dropped.
Return ==
    /\ pc = "done"
    /\ pc' = "idle"
    /\ endpoint' = NoEndpoint
    /\ resultType' = "Unit"
    /\ request' = NoRequest
    /\ wire' = <<>>
    /\ response' = NoResponse
    /\ mode' = "typed"
    /\ result' = NoResult
    /\ trace' = <<>>
    /\ UNCHANGED <<credentials, calls>>
    /\ UNCHANGED bvars

Next ==
    \/ BuildRequest
    \/ AttachAuth
    \/ AttachBody
    \/ Send
    \/ Classify
    \/ ClassifyRaw
    \/ Return

Spec == Init /\ [][Next]_vars

(***************************************************************************)
(* endpoints/addons/post.rs, endpoints/builds/post.rs: the descriptors     *)
(* with a builder.  A descriptor is its own builder: new creates it, the   *)
(* setters write into it, build returns a fresh descriptor.                *)
(***************************************************************************)
MaxOps == 3          \* setter and build calls made on one builder after new

BuilderIds == {"APP_ID", " My App/1 "}

Names == {"DATABASE", "acme inc"}

Plans == {"heroku-postgresql:dev"}

Configs == {[k \in {} |-> ""], [k \in {"db-version"} |-> "1.2.3"]}

Includes == {<<"api:addon">>, <<"api:addon", "api:app">>}

Levels == {"notify"}

Urls == {"https://example.com/hook"}

BlobUrls == {"https://example.com/source.tgz?token=xyz"}

BuildpackUrls == {"urn:buildpack:ruby", "https://example.com/bp"}

BuildpackNames == {"heroku/ruby"}

Attachment(name) == [name |-> name]

AddonCreateParams(attachment, config, confirm, plan, name) ==
    [attachment |-> attachment, config |-> config, confirm |-> confirm,
     plan |-> plan, name |-> name]

AddonResolutionCreateParams(addon, addon_service, app) ==
    [addon |-> addon, addon_service |-> addon_service, app |-> app]

AttachmentCreateParams(addon, app, confirm, name, namespace) ==
    [addon |-> addon, app |-> app, confirm |-> confirm, name |-> name,
     namespace |-> namespace]

AttachmentResolutionCreateParams(addon_attachment, addon_service, app) ==
    [addon_attachment |-> addon_attachment, addon_service |-> addon_service,
     app |-> app]

WebhookCreateParams(authorization, include, level, secret, url) ==
    [authorization |-> authorization, include |-> include, level |-> level,
     secret |-> secret, url |-> url]

BuildpackParam(url, name) == [url |-> url, name |-> name]

SourceBlobParam(checksum, url, version) ==
    [checksum |-> checksum, url |-> url, version |-> version]

BuildCreateParams(buildpacks, source_blob) ==
    [buildpacks |-> buildpacks, source_blob |-> source_blob]

\* A descriptor: the struct's name, its identifier field (the empty string
\* for a struct without one) and its params.
Descriptor(name, id, params) == [name |-> name, id |-> id, params |-> Some(params)]

(***************************************************************************)
(* AddonCreate                                                             *)
(***************************************************************************)
AddonCreate_new(app_id, plan) ==
    Descriptor("AddonCreate", app_id, AddonCreateParams(None, None, None, plan, None))

AddonCreate_attachment_name(self, attachment_name) ==
    [self EXCEPT !.params.v.attachment = Some(Attachment(Some(attachment_name)))]

AddonCreate_config(self, config) == [self EXCEPT !.params.v.config = Some(config)]

\* confirm that also resets the neighbouring name field
AddonCreate_confirm_clobber(self, confirm) ==
    [self EXCEPT !.params.v.confirm = Some(confirm), !.params.v.name = None]

AddonCreate_confirm(self, confirm) == [self EXCEPT !.params.v.confirm = Some(confirm)]

\* name that keeps the first value it was given
AddonCreate_name_first(self, name) ==
    IF self.params.v.name.some THEN self ELSE [self EXCEPT !.params.v.name = Some(name)]

AddonCreate_name(self, name) == [self EXCEPT !.params.v.name = Some(name)]

\* build that forgets the config map
AddonCreate_build_noconfig(self) ==
    Descriptor("AddonCreate", self.id,
               AddonCreateParams(self.params.v.attachment, None,
                                 self.params.v.confirm, self.params.v.plan,
                                 self.params.v.name))

AddonCreate_build(self) ==
    Descriptor("AddonCreate", self.id,
               AddonCreateParams(self.params.v.attachment, self.params.v.config,
                                 self.params.v.confirm, self.params.v.plan,
                                 self.params.v.name))

(***************************************************************************)
(* AddonResolutionCreate                                                   *)
(***************************************************************************)
AddonResolutionCreate_new(addon) ==
    Descriptor("AddonResolutionCreate", "", AddonResolutionCreateParams(addon, None, None))

AddonResolutionCreate_addon_service(self, addon_service) ==
    [self EXCEPT !.params.v.addon_service = Some(addon_service)]

AddonResolutionCreate_app(self, app) == [self EXCEPT !.params.v.app = Some(app)]

AddonResolutionCreate_build(self) ==
    Descriptor("AddonResolutionCreate", "",
               AddonResolutionCreateParams(self.params.v.addon,
                                           self.params.v.addon_service,
                                           self.params.v.app))

(***************************************************************************)
(* AddonActionProvision, AddonActionDeprovision                            *)
(***************************************************************************)
AddonActionProvision_new(addon_id) == AddonActionProvision(addon_id)

AddonActionDeprovision_new(addon_id) ==
    [name |-> "AddonActionDeprovision", id |-> addon_id, params |-> None]

(***************************************************************************)
(* AttachmentCreate                                                        *)
(***************************************************************************)
AttachmentCreate_new(addon, app) ==
    Descriptor("AttachmentCreate", "", AttachmentCreateParams(addon, app, None, None, None))

AttachmentCreate_confirm(self, confirm) == [self EXCEPT !.params.v.confirm = Some(confirm)]

AttachmentCreate_name(self, name) == [self EXCEPT !.params.v.name = Some(name)]

AttachmentCreate_namespace(self, namespace) ==
    [self EXCEPT !.params.v.namespace = Some(namespace)]

AttachmentCreate_build(self) ==
    Descriptor("AttachmentCreate", "",
               AttachmentCreateParams(self.params.v.addon, self.params.v.app,
                                      self.params.v.confirm, self.params.v.name,
                                      self.params.v.namespace))

(***************************************************************************)
(* AttachmentResolutionCreate                                              *)
(***************************************************************************)
AttachmentResolutionCreate_new(addon_attachment) ==
    Descriptor("AttachmentResolutionCreate", "",
               AttachmentResolutionCreateParams(addon_attachment, None, None))

AttachmentResolutionCreate_app(self, app) == [self EXCEPT !.params.v.app = Some(app)]

AttachmentResolutionCreate_addon_service(self, addon_service) ==
    [self EXCEPT !.params.v.addon_service = Some(addon_service)]

AttachmentResolutionCreate_build(self) ==
    Descriptor("AttachmentResolutionCreate", "",
               AttachmentResolutionCreateParams(self.params.v.addon_attachment,
                                                self.params.v.addon_service,
                                                self.params.v.app))

(***************************************************************************)
(* WebhookCreate                                                           *)
(***************************************************************************)
WebhookCreate_new(addon_id, include, level, url) ==
    Descriptor("WebhookCreate", addon_id,
               WebhookCreateParams(None, include, level, None, url))

WebhookCreate_authorization(self, authorization) ==
    [self EXCEPT !.params.v.authorization = Some(authorization)]

WebhookCreate_secret(self, secret) == [self EXCEPT !.params.v.secret = Some(secret)]

\* build that forgets the identifier
WebhookCreate_build_noid(self) ==
    Descriptor("WebhookCreate", "",
               WebhookCreateParams(None, self.params.v.include, self.params.v.level,
                                   self.params.v.secret, self.params.v.url))

\* build() writes authorization: None, whatever the builder holds
WebhookCreate_build(self) ==
    Descriptor("WebhookCreate", self.id,
               WebhookCreateParams(None, self.params.v.include, self.params.v.level,
                                   self.params.v.secret, self.params.v.url))

(***************************************************************************)
(* BuildCreate                                                             *)
(***************************************************************************)
\* new that starts with an empty buildpack list
BuildCreate_new_emptylist(app_id, source_blob_url) ==
    Descriptor("BuildCreate", app_id,
               BuildCreateParams(Some(<<>>), SourceBlobParam(None, source_blob_url, None)))

BuildCreate_new(app_id, source_blob_url) ==
    Descriptor("BuildCreate", app_id,
               BuildCreateParams(None, SourceBlobParam(None, source_blob_url, None)))

BuildCreate_checksum(self, checksum) ==
    [self EXCEPT !.params.v.source_blob.checksum = Some(checksum)]

BuildCreate_version(self, version) ==
    [self EXCEPT !.params.v.source_blob.version = Some(version)]

\* buildpack() stores a vector holding the one buildpack just given
BuildCreate_buildpack(self, url, name) ==
    [self EXCEPT !.params.v.buildpacks = Some(<<BuildpackParam(url, name)>>)]

BuildCreate_build(self) ==
    Descriptor("BuildCreate", self.id,
               BuildCreateParams(self.params.v.buildpacks,
                                 SourceBlobParam(self.params.v.source_blob.checksum,
                                                 self.params.v.source_blob.url,
                                                 self.params.v.source_blob.version)))

(***************************************************************************)
(* #[derive(Serialize)] on the params structs: the JSON object sent as the *)
(* request body.  A field is a key with its value; an Option field is null *)
(* when None, unless the struct (serde_with::skip_serializing_none) or the *)
(* field (skip_serializing_if = "Option::is_none") leaves it out.          *)
(***************************************************************************)
JString(s) == [k |-> "str", s |-> s]

Field(key, val) == [key |-> key, val |-> val, keep |-> TRUE]

\* an Option field; skip tells whether None is left out
OptionField(key, o, val, skip) ==
    [key |-> key, val |-> IF o.some THEN val ELSE JNull, keep |-> o.some \/ ~skip]

SerializeStruct(fields) ==
    LET kept == {i \in DOMAIN fields : fields[i].keep} IN
    JObj([key \in {fields[i].key : i \in kept} |->
            fields[CHOOSE i \in kept : fields[i].key = key].val])

SerializeStr(o) == IF o.some THEN JString(o.v) ELSE JNull

SerializeMap(m) == JObj([key \in DOMAIN m |-> JString(m[key])])

SerializeVec(v) == JArr([i \in DOMAIN v |-> JString(v[i])])

Attachment_serialize(a) == SerializeStruct(<<Field("name", SerializeStr(a.name))>>)

\* AddonCreateParams without skip_serializing_none
AddonCreateParams_serialize_nulls(p) ==
    SerializeStruct(<<
        OptionField("attachment", p.attachment,
                    IF p.attachment.some THEN Attachment_serialize(p.attachment.v)
                    ELSE JNull, FALSE),
        OptionField("config", p.config,
                    IF p.config.some THEN SerializeMap(p.config.v) ELSE JNull, FALSE),
        OptionField("confirm", p.confirm, SerializeStr(p.confirm), FALSE),
        Field("plan", JString(p.plan)),
        OptionField("name", p.name, SerializeStr(p.name), FALSE) >>)

AddonCreateParams_serialize(p) ==
    SerializeStruct(<<
        OptionField("attachment", p.attachment,
                    IF p.attachment.some THEN Attachment_serialize(p.attachment.v)
                    ELSE JNull, TRUE),
        OptionField("config", p.config,
                    IF p.config.some THEN SerializeMap(p.config.v) ELSE JNull, TRUE),
        OptionField("confirm", p.confirm, SerializeStr(p.confirm), TRUE),
        Field("plan", JString(p.plan)),
        OptionField("name", p.name, SerializeStr(p.name), TRUE) >>)

AddonResolutionCreateParams_serialize(p) ==
    SerializeStruct(<<
        Field("addon", JString(p.addon)),
        OptionField("addon_service", p.addon_service, SerializeStr(p.addon_service), TRUE),
        OptionField("app", p.app, SerializeStr(p.app), TRUE) >>)

\* AttachmentCreateParams with namespace skipped when None
AttachmentCreateParams_serialize_skipall(p) ==
    SerializeStruct(<<
        Field("addon", JString(p.addon)),
        Field("app", JString(p.app)),
        OptionField("confirm", p.confirm, SerializeStr(p.confirm), TRUE),
        OptionField("name", p.name, SerializeStr(p.name), TRUE),
        OptionField("namespace", p.namespace, SerializeStr(p.namespace), TRUE) >>)

AttachmentCreateParams_serialize(p) ==
    SerializeStruct(<<
        Field("addon", JString(p.addon)),
        Field("app", JString(p.app)),
        OptionField("confirm", p.confirm, SerializeStr(p.confirm), TRUE),
        OptionField("name", p.name, SerializeStr(p.name), TRUE),
        OptionField("namespace", p.namespace, SerializeStr(p.namespace), FALSE) >>)

AttachmentResolutionCreateParams_serialize(p) ==
    SerializeStruct(<<
        Field("addon_attachment", JString(p.addon_attachment)),
        OptionField("addon_service", p.addon_service, SerializeStr(p.addon_service), TRUE),
        OptionField("app", p.app, SerializeStr(p.app), TRUE) >>)

WebhookCreateParams_serialize(p) ==
    SerializeStruct(<<
        OptionField("authorization", p.authorization, SerializeStr(p.authorization), FALSE),
        Field("include", SerializeVec(p.include)),
        Field("level", JString(p.level)),
        OptionField("secret", p.secret, SerializeStr(p.secret), FALSE),
        Field("url", JString(p.url)) >>)

BuildpackParam_serialize(b) ==
    SerializeStruct(<<Field("url", JString(b.url)), Field("name", JString(b.name))>>)

\* SourceBlobParam with skip_serializing_none
SourceBlobParam_serialize_skip(sb) ==
    SerializeStruct(<<
        OptionField("checksum", sb.checksum, SerializeStr(sb.checksum), TRUE),
        Field("url", JString(sb.url)),
        OptionField("version", sb.version, SerializeStr(sb.version), TRUE) >>)

SourceBlobParam_serialize(sb) ==
    SerializeStruct(<<
        OptionField("checksum", sb.checksum, SerializeStr(sb.checksum), FALSE),
        Field("url", JString(sb.url)),
        OptionField("version", sb.version, SerializeStr(sb.version), FALSE) >>)

BuildCreateParams_serialize(p) ==
    SerializeStruct(<<
        OptionField("buildpacks", p.buildpacks,
                    IF p.buildpacks.some
                    THEN JArr([i \in DOMAIN p.buildpacks.v |->
                                 BuildpackParam_serialize(p.buildpacks.v[i])])
                    ELSE JNull, FALSE),
        Field("source_blob", SourceBlobParam_serialize(p.source_blob)) >>)

\* The serialized body of a descriptor that has one.
serialize(e) ==
    CASE e.name = "AddonCreate" -> AddonCreateParams_serialize(body(e).v)
      [] e.name = "AddonResolutionCreate" -> AddonResolutionCreateParams_serialize(body(e).v)
      [] e.name = "AttachmentCreate" -> AttachmentCreateParams_serialize(body(e).v)
      [] e.name = "AttachmentResolutionCreate" ->
            AttachmentResolutionCreateParams_serialize(body(e).v)
      [] e.name = "WebhookCreate" -> WebhookCreateParams_serialize(body(e).v)
      [] e.name = "BuildCreate" -> BuildCreateParams_serialize(body(e).v)

(***************************************************************************)
(* A caller working on one builder: new, then setter and build calls.      *)
(***************************************************************************)
Call(op, args) == [op |-> op, args |-> args]

\* new(...): the caller holds a fresh descriptor
Created(d, args) ==
    /\ builder' = d
    /\ ops' = <<Call("new", args)>>
    /\ UNCHANGED built
    /\ UNCHANGED evars

\* a setter takes &mut self and writes into the builder
Written(d, op, args) ==
    /\ Len(ops) <= MaxOps
    /\ builder' = d
    /\ ops' = Append(ops, Call(op, args))
    /\ UNCHANGED built
    /\ UNCHANGED evars

\* build whose result shares its state with the descriptors built before
Returned_shared(d) ==
    /\ Len(ops) <= MaxOps
    /\ built' = Append([i \in DOMAIN built |-> d], d)
    /\ ops' = Append(ops, Call("build", <<>>))
    /\ UNCHANGED builder
    /\ UNCHANGED evars

\* build takes &self and returns a new descriptor
Returned(d) ==
    /\ Len(ops) <= MaxOps
    /\ built' = Append(built, d)
    /\ ops' = Append(ops, Call("build", <<>>))
    /\ UNCHANGED builder
    /\ UNCHANGED evars

New_AddonCreate ==
    /\ builder = NoEndpoint
    /\ \E app_id \in BuilderIds, plan \in Plans :
          Created(AddonCreate_new(app_id, plan), <<app_id, plan>>)

Call_AddonCreate_attachment_name ==
    /\ builder.name = "AddonCreate"
    /\ \E attachment_name \in Names :
          Written(AddonCreate_attachment_name(builder, attachment_name), "attachment_name", <<attachment_name>>)

Call_AddonCreate_config ==
    /\ builder.name = "AddonCreate"
    /\ \E config \in Configs :
          Written(AddonCreate_config(builder, config), "config", <<config>>)

Call_AddonCreate_confirm ==
    /\ builder.name = "AddonCreate"
    /\ \E confirm \in Names :
          Written(AddonCreate_confirm(builder, confirm), "confirm", <<confirm>>)

Call_AddonCreate_name ==
    /\ builder.name = "AddonCreate"
    /\ \E name \in Names :
          Written(AddonCreate_name(builder, name), "name", <<name>>)

Call_AddonCreate_build ==
    /\ builder.name = "AddonCreate"
    /\ Returned(AddonCreate_build(builder))

New_AddonResolutionCreate ==
    /\ builder = NoEndpoint
    /\ \E addon \in Names :
          Created(AddonResolutionCreate_new(addon), <<addon>>)

Call_AddonResolutionCreate_addon_service ==
    /\ builder.name = "AddonResolutionCreate"
    /\ \E addon_service \in Names :
          Written(AddonResolutionCreate_addon_service(builder, addon_service), "addon_service", <<addon_service>>)

Call_AddonResolutionCreate_app ==
    /\ builder.name = "AddonResolutionCreate"
    /\ \E app \in Names :
          Written(AddonResolutionCreate_app(builder, app), "app", <<app>>)

Call_AddonResolutionCreate_build ==
    /\ builder.name = "AddonResolutionCreate"
    /\ Returned(AddonResolutionCreate_build(builder))

New_AddonActionProvision ==
    /\ builder = NoEndpoint
    /\ \E addon_id \in BuilderIds :
          Created(AddonActionProvision_new(addon_id), <<addon_id>>)

New_AddonActionDeprovision ==
    /\ builder = NoEndpoint
    /\ \E addon_id \in BuilderIds :
          Created(AddonActionDeprovision_new(addon_id), <<addon_id>>)

New_AttachmentCreate ==
    /\ builder = NoEndpoint
    /\ \E addon \in Names, app \in Names :
          Created(AttachmentCreate_new(addon, app), <<addon, app>>)

Call_AttachmentCreate_confirm ==
    /\ builder.name = "AttachmentCreate"
    /\ \E confirm \in Names :
          Written(AttachmentCreate_confirm(builder, confirm), "confirm", <<confirm>>)

Call_AttachmentCreate_name ==
    /\ builder.name = "AttachmentCreate"
    /\ \E name \in Names :
          Written(AttachmentCreate_name(builder, name), "name", <<name>>)

Call_AttachmentCreate_namespace ==
    /\ builder.name = "AttachmentCreate"
    /\ \E namespace \in Names :
          Written(AttachmentCreate_namespace(builder, namespace), "namespace", <<namespace>>)

Call_AttachmentCreate_build ==
    /\ builder.name = "AttachmentCreate"
    /\ Returned(AttachmentCreate_build(builder))

New_AttachmentResolutionCreate ==
    /\ builder = NoEndpoint
    /\ \E addon_attachment \in Names :
          Created(AttachmentResolutionCreate_new(addon_attachment), <<addon_attachment>>)

Call_AttachmentResolutionCreate_app ==
    /\ builder.name = "AttachmentResolutionCreate"
    /\ \E app \in Names :
          Written(AttachmentResolutionCreate_app(builder, app), "app", <<app>>)

Call_AttachmentResolutionCreate_addon_service ==
    /\ builder.name = "AttachmentResolutionCreate"
    /\ \E addon_service \in Names :
          Written(AttachmentResolutionCreate_addon_service(builder, addon_service), "addon_service", <<addon_service>>)

Call_AttachmentResolutionCreate_build ==
    /\ builder.name = "AttachmentResolutionCreate"
    /\ Returned(AttachmentResolutionCreate_build(builder))

New_WebhookCreate ==
    /\ builder = NoEndpoint
    /\ \E addon_id \in BuilderIds, include \in Includes, level \in Levels, url \in Urls :
          Created(WebhookCreate_new(addon_id, include, level, url), <<addon_id, include, level, url>>)

Call_WebhookCreate_authorization ==
    /\ builder.name = "WebhookCreate"
    /\ \E authorization \in Names :
          Written(WebhookCreate_authorization(builder, authorization), "authorization", <<authorization>>)

Call_WebhookCreate_secret ==
    /\ builder.name = "WebhookCreate"
    /\ \E secret \in Names :
          Written(WebhookCreate_secret(builder, secret), "secret", <<secret>>)

Call_WebhookCreate_build ==
    /\ builder.name = "WebhookCreate"
    /\ Returned(WebhookCreate_build(builder))

New_BuildCreate ==
    /\ builder = NoEndpoint
    /\ \E app_id \in BuilderIds, source_blob_url \in BlobUrls :
          Created(BuildCreate_new(app_id, source_blob_url), <<app_id, source_blob_url>>)

Call_BuildCreate_checksum ==
    /\ builder.name = "BuildCreate"
    /\ \E checksum \in Names :
          Written(BuildCreate_checksum(builder, checksum), "checksum", <<checksum>>)

Call_BuildCreate_version ==
    /\ builder.name = "BuildCreate"
    /\ \E version \in Names :
          Written(BuildCreate_version(builder, version), "version", <<version>>)

Call_BuildCreate_buildpack ==
    /\ builder.name = "BuildCreate"
    /\ \E url \in BuildpackUrls, name \in BuildpackNames :
          Written(BuildCreate_buildpack(builder, url, name), "buildpack", <<url, name>>)

Call_BuildCreate_build ==
    /\ builder.name = "BuildCreate"
    /\ Returned(BuildCreate_build(builder))

\* CollaboratorCreate has no builder: the caller writes the struct literal
Literal_CollaboratorCreate ==
    /\ builder = NoEndpoint
    /\ \E app_id \in BuilderIds, user \in Users, silent \in {None, Some(TRUE), Some(FALSE)} :
          Created(CollaboratorCreate(app_id, CollaboratorCreateParams(user, silent)),
                  <<app_id, user, silent>>)

InitBuild ==
    /\ credentials = UserAuthToken(<<>>)
    /\ pc = "idle"
    /\ endpoint = NoEndpoint
    /\ resultType = "Unit"
    /\ request = NoRequest
    /\ wire = <<>>
    /\ response = NoResponse
    /\ mode = "typed"
    /\ result = NoResult
    /\ trace = <<>>
    /\ calls = 0
    /\ builder = NoEndpoint
    /\ built = <<>>
    /\ ops = <<>>

NextBuild ==
    \/ New_AddonCreate
    \/ Call_AddonCreate_attachment_name
    \/ Call_AddonCreate_config
    \/ Call_AddonCreate_confirm
    \/ Call_AddonCreate_name
    \/ Call_AddonCreate_build
    \/ New_AddonResolutionCreate
    \/ Call_AddonResolutionCreate_addon_service
    \/ Call_AddonResolutionCreate_app
    \/ Call_AddonResolutionCreate_build
    \/ New_AddonActionProvision
    \/ New_AddonActionDeprovision
    \/ New_AttachmentCreate
    \/ Call_AttachmentCreate_confirm
    \/ Call_AttachmentCreate_name
    \/ Call_AttachmentCreate_namespace
    \/ Call_AttachmentCreate_build
    \/ New_AttachmentResolutionCreate
    \/ Call_AttachmentResolutionCreate_app
    \/ Call_AttachmentResolutionCreate_addon_service
    \/ Call_AttachmentResolutionCreate_build
    \/ New_WebhookCreate
    \/ Call_WebhookCreate_authorization
    \/ Call_WebhookCreate_secret
    \/ Call_WebhookCreate_build
    \/ New_BuildCreate
    \/ Call_BuildCreate_checksum
    \/ Call_BuildCreate_version
    \/ Call_BuildCreate_buildpack
    \/ Call_BuildCreate_build
    \/ Literal_CollaboratorCreate

SpecBuild == InitBuild /\ [][NextBuild]_vars

(***************************************************************************)
(* Properties                                                              *)
(***************************************************************************)
TypedDone == pc = "done" /\ mode = "typed"

RawDone == pc = "done" /\ mode = "raw"

\* C1: match_response on a success status whose body deserializes as the
\* declared type T returns Ok(v), v being the value parsed from the body.
C1_SuccessParsedIsOk ==
    (TypedDone /\ is_success(response.status) /\ json(resultType, response.body).ok)
        => /\ result.kind = "Ok"
           /\ result.value = json(resultType, response.body).value
           /\ resultType = "Addon" => result.value.id = response.body.json.f["id"].v

C1_Witness ==
    /\ TypedDone
    /\ response.status = 200
    /\ resultType = "Addon"
    /\ response.body = JsonBody(JObj([n \in {"id", "url"} |->
                           IF n = "id" THEN JStr("gone") ELSE JNum("7")]))
    /\ result = Ok([type |-> "Addon", id |-> "gone"])

\* C2: match_response on a success status whose body does not parse as T
\* returns HerokuApiFailure::Invalid wrapping the parse error: never Ok,
\* never HerokuApiFailure::Error, and no other outcome.
C2_SuccessUnparsedIsInvalid ==
    (TypedDone /\ is_success(response.status) /\ ~json(resultType, response.body).ok)
        => /\ result.kind = "Invalid"
           /\ result.err = json(resultType, response.body).err

C2_Witness ==
    /\ TypedDone
    /\ response.status = 204
    /\ resultType = "Addon"
    /\ response.body = GarbageBody
    /\ result = Invalid("syntax")

\* C3: match_response on a non-success status s whose body parses as the
\* error envelope e returns HerokuApiFailure::Error(s, e): the status is the
\* response's own and the error fields are those of the body.
C3_FailureCarriesEnvelope ==
    (TypedDone /\ ~is_success(response.status)
       /\ json("HerokuApiError", response.body).ok)
        => /\ result.kind = "Error"
           /\ result.status = response.status
           /\ result.error.id = response.body.json.f["id"].v
           /\ result.error.message = response.body.json.f["message"].v
           /\ result.error = json("HerokuApiError", response.body).value

C3_Witness ==
    /\ TypedDone
    /\ response.status = 404
    /\ response.body = JsonBody(JObj([n \in {"id", "message"} |->
                           IF n = "id" THEN JStr("not_found") ELSE JStr("gone")]))
    /\ result = Error(404, [type |-> "HerokuApiError", id |-> "not_found",
                            message |-> "gone", url |-> None])

\* C4: match_response and match_raw_response on a non-success status s whose
\* body is empty or does not parse as the error envelope return
\* HerokuApiFailure::Error(s, default empty error); the parse error is not
\* surfaced as HerokuApiFailure::Invalid.
C4_FailureDefaultsEnvelope ==
    (pc = "done" /\ ~is_success(response.status)
       /\ ~json("HerokuApiError", response.body).ok)
        => /\ result.kind = "Error"
           /\ result.status = response.status
           /\ result.error.id = ""
           /\ result.error.message = ""
           /\ result.error.url = None

C4_Witness ==
    /\ RawDone
    /\ response.status = 300
    /\ response.body = EmptyBody
    /\ result.kind = "Error"
    /\ result.status = 300
    /\ result.error.id = ""

EmptyMarkers == {"Empty", "Unit", "VecEmpty"}

EmptyShapes == {JsonBody(JObj(<<>>)), JsonBody(JArr(<<>>)), EmptyBody}

\* C5: for a declared success type that is an empty marker (Empty, () or
\* Vec<Empty>), match_response on a success status returns Ok for each of
\* the bodies `{}`, `[]` and the empty body.
C5_EmptyMarkerAcceptsEmptyShapes ==
    (TypedDone /\ is_success(response.status) /\ resultType \in EmptyMarkers
       /\ response.body \in EmptyShapes)
        => result.kind = "Ok"

\* C6: match_raw_response on a success status returns Ok carrying the very
\* response it was given, status and body untouched, whatever the body.
C6_RawSuccessReturnsResponse ==
    [][(pc = "sent" /\ mode = "raw" /\ is_success(response.status))
         => /\ result' = Ok(response)
            /\ result'.value.status = response.status
            /\ result'.value.body = response.body
            /\ response' = response]_vars

C6_Witness ==
    /\ RawDone
    /\ response.status = 299
    /\ response.body = GarbageBody
    /\ result = Ok([status |-> 299, body |-> GarbageBody])

\* C7: a classification yields exactly one of Ok, Invalid and Error, and the
\* status class fixes which: a success status yields Ok or Invalid, a
\* non-success status yields Error, also when its body would parse as T.
C7_OutcomeFixedByStatusClass ==
    pc = "done"
        => /\ result.kind \in {"Ok", "Invalid", "Error"}
           /\ is_success(response.status) => result.kind \in {"Ok", "Invalid"}
           /\ ~is_success(response.status) => result.kind = "Error"

C7_Witness ==
    /\ TypedDone
    /\ response.status = 404
    /\ resultType = "Addon"
    /\ json("Addon", response.body).ok
    /\ result.kind = "Error"

\* C8: for every token t, the headers of UserAuthToken{token: t} are exactly
\* one pair, named "Authorization", whose value is "Bearer " followed by t.
C8_BearerHeader ==
    LET hs == headers(credentials) IN
    /\ Len(hs) = 1
    /\ hs[1][1] = "Authorization"
    /\ Len(hs[1][2]) = 7 + Len(credentials.token)
    /\ SubSeq(hs[1][2], 1, 7) = <<"B", "e", "a", "r", "e", "r", " ">>
    /\ SubSeq(hs[1][2], 8, Len(hs[1][2])) = credentials.token

C8_Witness ==
    /\ credentials.token = <<" ">>
    /\ pc = "authed"
    /\ request.headers = << <<"Authorization", <<"B", "e", "a", "r", "e", "r", " ", " ">> >> >>

Authed == pc \in {"authed", "ready", "sent", "done"}

\* C9: over any sequence of requests made with the shared credential, auth
\* leaves the credential as it was, and every request that went through auth
\* carries exactly the headers of the credential, each once.
C9_AuthAttachesOnceAndKeepsCredential ==
    [][/\ credentials' = credentials
       /\ Authed' => /\ request'.headers = headers(credentials)
                     /\ Len(request'.headers) = 1]_vars

C9_Witness ==
    /\ calls = 2
    /\ pc = "sent"
    /\ credentials.token = <<"k">>
    /\ Len(wire) = 1
    /\ wire[1].headers = << <<"Authorization", <<"B", "e", "a", "r", "e", "r", " ", "k">> >> >>

IsPrefix(s, t) == Len(s) <= Len(t) /\ SubSeq(t, 1, Len(s)) = s

\* C10: one invocation of the executor performs build request, attach auth,
\* attach body if present, send, classify, in that order, with exactly one
\* network send: the request sent carries the auth headers, the response is
\* classified only after the send, and nothing is sent a second time.
C10_OneOrderedSendPerInvocation ==
    /\ IsPrefix(trace, <<"build", "auth", "body", "send", "classify">>)
    /\ Len(wire) <= 1
    /\ Len(wire) = 1 <=> pc \in {"sent", "done"}
    /\ Len(wire) = 1 =>
          /\ wire[1].headers = headers(credentials)
          /\ wire[1].body = body(endpoint)
          /\ wire[1].method = method(endpoint)
          /\ wire[1].path = path(endpoint)
    /\ result # NoResult => (Len(wire) = 1 /\ response # NoResponse)
    /\ pc = "done" => (result # NoResult /\ Len(trace) = 5)

C10_Witness ==
    /\ pc = "done"
    /\ calls = 2
    /\ endpoint.name = "CollaboratorCreate"
    /\ trace = <<"build", "auth", "body", "send", "classify">>
    /\ Len(wire) = 1
    /\ wire[1].body.some
    /\ result.kind = "Invalid"

(***************************************************************************)
(* Properties of the descriptors and their builders                        *)
(***************************************************************************)
Last(s) == s[Len(s)]

\* the descriptors the caller holds: the builder and what build() returned
Held == (IF builder = NoEndpoint THEN {} ELSE {builder}) \cup {built[i] : i \in DOMAIN built}

JustBuilt == ops # <<>> /\ Last(ops).op = "build"

\* the argument last passed to a setter, if it was called
LastArgs(op) ==
    IF \E i \in DOMAIN ops : ops[i].op = op
    THEN Some(ops[CHOOSE i \in DOMAIN ops :
                    /\ ops[i].op = op
                    /\ \A j \in DOMAIN ops : ops[j].op = op => j <= i].args)
    ELSE None

\* the documented URL templates of the descriptors with a path parameter
Template(name, id) ==
    CASE name = "AddonCreate" -> <<"apps/", id, "/addons">>
      [] name = "AddonActionProvision" -> <<"addons/", id, "/actions/provision">>
      [] name = "AddonActionDeprovision" -> <<"addons/", id, "/actions/deprovision">>
      [] name = "WebhookCreate" -> <<"addons/", id, "/webhooks">>
      [] name = "BuildCreate" -> <<"apps/", id, "/builds">>
      [] name = "CollaboratorCreate" -> <<"apps/", id, "/collaborators">>

WithPathParameter ==
    {"AddonCreate", "AddonActionProvision", "AddonActionDeprovision",
     "WebhookCreate", "BuildCreate", "CollaboratorCreate"}

\* C11: for every descriptor with a path parameter, path() is the URL
\* template with the identifier given at construction substituted as it is,
\* and method() is POST.
C11_PathIsTemplateWithIdVerbatim ==
    \A d \in Held :
        d.name \in WithPathParameter
            => /\ method(d) = "Post"
               /\ path(d) = Template(d.name, ops[1].args[1])

C11_Witness ==
    /\ builder.name = "AddonCreate"
    /\ ops[1].args = <<"APP_ID", "heroku-postgresql:dev">>
    /\ path(builder) = <<"apps/", "APP_ID", "/addons">>
    /\ method(builder) = "Post"
    /\ Len(built) = 1
    /\ path(built[1]) = <<"apps/", "APP_ID", "/addons">>

\* C12: every descriptor has one method and one path, which depend on the
\* identifier only (on nothing for AddonResolutionCreate, AttachmentCreate
\* and AttachmentResolutionCreate): setter and build calls leave method()
\* and path() as they were, and a built descriptor has the builder's.
C12_MethodAndPathFixed ==
    [][builder # NoEndpoint
         => /\ path(builder') = path(builder)
            /\ method(builder') = method(builder)
            /\ \A i \in DOMAIN built' :
                  /\ path(built'[i]) = path(builder)
                  /\ method(built'[i]) = method(builder)
            /\ builder.name \in {"AddonResolutionCreate", "AttachmentCreate",
                                 "AttachmentResolutionCreate"}
                  => Len(path(builder')) = 1]_vars

C12_Witness ==
    /\ builder.name = "WebhookCreate"
    /\ Len(ops) = 4
    /\ ops[2].op = "secret"
    /\ ops[3].op = "build"
    /\ ops[4].op = "authorization"
    /\ path(built[1]) = <<"addons/", " My App/1 ", "/webhooks">>
    /\ path(builder) = path(built[1])

WithFaithfulBuild ==
    {"AddonCreate", "AddonResolutionCreate", "AttachmentCreate",
     "AttachmentResolutionCreate", "BuildCreate"}

\* C13: for AddonCreate, AddonResolutionCreate, AttachmentCreate,
\* AttachmentResolutionCreate and BuildCreate, build() after new and any
\* setter calls returns a descriptor whose identifier and parameters are the
\* builder's current ones, so that both have the same body.
C13_BuildReturnsCurrentValues ==
    (JustBuilt /\ builder.name \in WithFaithfulBuild)
        => /\ Last(built).id = builder.id
           /\ Last(built).params = builder.params
           /\ body(Last(built)) = body(builder)
           /\ serialize(Last(built)) = serialize(builder)

C13_Witness ==
    /\ JustBuilt
    /\ builder.name = "AddonCreate"
    /\ Len(ops) = 4
    /\ builder.params.v.config = Some([k \in {"db-version"} |-> "1.2.3"])
    /\ builder.params.v.attachment = Some(Attachment(Some("DATABASE")))
    /\ Last(built).params.v.config = Some([k \in {"db-version"} |-> "1.2.3"])
    /\ Last(built).params.v.attachment = Some(Attachment(Some("DATABASE")))

\* the value of an optional string parameter after the calls in ops
LastSet(op) == IF LastArgs(op).some THEN Some(LastArgs(op).v[1]) ELSE None

\* C14: WebhookCreate: after new(addon_id, include, level, url), calls of
\* authorization(a) and secret(s), and build(), the body of the built
\* descriptor has authorization = a and secret = s, the last values set, and
\* the addon_id, include, level and url given to new.
C14_WebhookBuildKeepsAuthorizationAndSecret ==
    (JustBuilt /\ builder.name = "WebhookCreate")
        => /\ body(Last(built)).v.authorization = LastSet("authorization")
           /\ body(Last(built)).v.secret = LastSet("secret")
           /\ Last(built).id = ops[1].args[1]
           /\ body(Last(built)).v.include = ops[1].args[2]
           /\ body(Last(built)).v.level = ops[1].args[3]
           /\ body(Last(built)).v.url = ops[1].args[4]

\* whether a setter has been called on the builder
WasSet(op) == LastArgs(op).some

\* C15: null omission for AddonCreate, AddonResolutionCreate and
\* AttachmentResolutionCreate: the serialized body has the key of an
\* optional parameter exactly when the parameter has been set, always has
\* the required parameter (plan, addon, addon_attachment), and has no null.
C15_NullOmission ==
    /\ \A d \in Held :
          d.name \in {"AddonCreate", "AddonResolutionCreate", "AttachmentResolutionCreate"}
              => LET j == serialize(d).f
                     required == CASE d.name = "AddonCreate" -> "plan"
                                   [] d.name = "AddonResolutionCreate" -> "addon"
                                   [] OTHER -> "addon_attachment"
                 IN /\ required \in DOMAIN j
                    /\ \A key \in DOMAIN d.params.v \ {required} :
                          key \in DOMAIN j <=> d.params.v[key].some
                    /\ \A key \in DOMAIN j : j[key] # JNull
    /\ builder.name = "AddonCreate"
          => LET j == serialize(builder).f
             IN /\ j["plan"] = JString(ops[1].args[2])
                /\ "attachment" \in DOMAIN j <=> WasSet("attachment_name")
                /\ "config" \in DOMAIN j <=> WasSet("config")
                /\ "confirm" \in DOMAIN j <=> WasSet("confirm")
                /\ "name" \in DOMAIN j <=> WasSet("name")
    /\ builder.name \in {"AddonResolutionCreate", "AttachmentResolutionCreate"}
          => LET j == serialize(builder).f
             IN /\ "addon_service" \in DOMAIN j <=> WasSet("addon_service")
                /\ "app" \in DOMAIN j <=> WasSet("app")

C15_Witness ==
    /\ builder.name = "AddonCreate"
    /\ Len(ops) = 3
    /\ WasSet("confirm")
    /\ WasSet("attachment_name")
    /\ DOMAIN serialize(builder).f = {"attachment", "confirm", "plan"}
    /\ serialize(builder).f["confirm"] = JString("acme inc")

\* C16: BuildCreate sends the fields that were not passed as null: the
\* serialized body always has the keys buildpacks and source_blob, the
\* latter with checksum, url and version, and the value is null for exactly
\* those of checksum, version and buildpacks that were not set.
C16_BuildCreateSendsNulls ==
    /\ \A d \in Held :
          d.name = "BuildCreate"
              => LET j == serialize(d).f
                 IN /\ DOMAIN j = {"buildpacks", "source_blob"}
                    /\ DOMAIN j["source_blob"].f = {"checksum", "url", "version"}
                    /\ j["source_blob"].f["url"] = JString(ops[1].args[2])
                    /\ j["buildpacks"] = JNull <=> ~d.params.v.buildpacks.some
                    /\ j["source_blob"].f["checksum"] = JNull
                          <=> ~d.params.v.source_blob.checksum.some
                    /\ j["source_blob"].f["version"] = JNull
                          <=> ~d.params.v.source_blob.version.some
    /\ builder.name = "BuildCreate"
          => LET j == serialize(builder).f
             IN /\ j["buildpacks"] = JNull <=> ~WasSet("buildpack")
                /\ j["source_blob"].f["checksum"] = JNull <=> ~WasSet("checksum")
                /\ j["source_blob"].f["version"] = JNull <=> ~WasSet("version")

C16_Witness ==
    /\ builder.name = "BuildCreate"
    /\ Len(ops) = 3
    /\ WasSet("version")
    /\ JustBuilt
    /\ serialize(Last(built)).f["buildpacks"] = JNull
    /\ serialize(Last(built)).f["source_blob"].f["checksum"] = JNull
    /\ serialize(Last(built)).f["source_blob"].f["version"] = JString("DATABASE")

JustCreated == Len(ops) = 1 /\ ops[1].op = "new"

\* C17: new(...) of every builder creates a descriptor with the required
\* parameters only: each required field is the matching argument of new and
\* every optional field is None.
C17_NewSetsRequiredOnly ==
    JustCreated
        => LET a == ops[1].args
               p == builder.params.v
           IN CASE builder.name = "AddonCreate" ->
                     /\ builder.id = a[1]
                     /\ p = [attachment |-> None, config |-> None, confirm |-> None,
                             plan |-> a[2], name |-> None]
                [] builder.name = "AddonResolutionCreate" ->
                     p = [addon |-> a[1], addon_service |-> None, app |-> None]
                [] builder.name = "AttachmentCreate" ->
                     p = [addon |-> a[1], app |-> a[2], confirm |-> None,
                          name |-> None, namespace |-> None]
                [] builder.name = "AttachmentResolutionCreate" ->
                     p = [addon_attachment |-> a[1], addon_service |-> None, app |-> None]
                [] builder.name = "WebhookCreate" ->
                     /\ builder.id = a[1]
                     /\ p = [authorization |-> None, include |-> a[2], level |-> a[3],
                             secret |-> None, url |-> a[4]]
                [] builder.name = "BuildCreate" ->
                     /\ builder.id = a[1]
                     /\ p = [buildpacks |-> None,
                             source_blob |-> [checksum |-> None, url |-> a[2],
                                              version |-> None]]
                [] OTHER -> TRUE

C17_Witness ==
    /\ JustCreated
    /\ builder.name = "BuildCreate"
    /\ builder.id = " My App/1 "
    /\ builder.params.v.buildpacks = None
    /\ builder.params.v.source_blob.url = "https://example.com/source.tgz?token=xyz"

IsBuildpackCall(o) == o.op = "buildpack"

\* C18: BuildCreate::buildpack populates the list of buildpacks, in order:
\* after buildpack(u1, n1), ..., buildpack(uk, nk) the body's buildpacks
\* list has k entries, entry i being {url: ui, name: ni}.
C18_BuildpackAppendsInOrder ==
    LET packs == SelectSeq(ops, IsBuildpackCall) IN
    (builder.name = "BuildCreate" /\ packs # <<>>)
        => body(builder).v.buildpacks =
              Some([i \in DOMAIN packs |->
                      [url |-> packs[i].args[1], name |-> packs[i].args[2]]])

\* C19: the fields documented as [Nullable] are not left out when unset: the
\* body of AttachmentCreate omits confirm and name when they are unset and
\* always has the key namespace, null when unset; the body of WebhookCreate
\* always has the keys authorization and secret, null when unset.
C19_NullableFieldsAreSent ==
    \A d \in Held :
        LET p == d.params.v IN
        /\ d.name = "AttachmentCreate"
              => LET j == serialize(d).f
                 IN /\ "confirm" \in DOMAIN j <=> p.confirm.some
                    /\ "name" \in DOMAIN j <=> p.name.some
                    /\ "namespace" \in DOMAIN j
                    /\ j["namespace"] = IF p.namespace.some
                                        THEN JString(p.namespace.v) ELSE JNull
                    /\ d = builder => /\ "confirm" \in DOMAIN j <=> WasSet("confirm")
                                      /\ "name" \in DOMAIN j <=> WasSet("name")
                                      /\ j["namespace"] = JNull <=> ~WasSet("namespace")
        /\ d.name = "WebhookCreate"
              => LET j == serialize(d).f
                 IN /\ {"authorization", "secret"} \subseteq DOMAIN j
                    /\ ~p.authorization.some => j["authorization"] = JNull
                    /\ ~p.secret.some => j["secret"] = JNull
                    /\ (d = builder /\ ~WasSet("authorization"))
                          => j["authorization"] = JNull
                    /\ (d = builder /\ ~WasSet("secret")) => j["secret"] = JNull

C19_Witness ==
    /\ builder.name = "AttachmentCreate"
    /\ Len(ops) = 2
    /\ WasSet("name")
    /\ DOMAIN serialize(builder).f = {"addon", "app", "name", "namespace"}
    /\ serialize(builder).f["namespace"] = JNull

\* C20: build() takes a snapshot: it leaves every field of the builder as
\* it was, two build() calls in a row return equal descriptors, and no later
\* call changes a descriptor built earlier, its config map, include list and
\* buildpacks list included.
C20_BuildIsSnapshot ==
    [][/\ Len(built') >= Len(built)
       /\ \A i \in DOMAIN built : built'[i] = built[i]
       /\ Len(built') > Len(built) => builder' = builder
       /\ (JustBuilt /\ Len(built') > Len(built)) => Last(built') = Last(built)]_vars

C20_Witness ==
    /\ builder.name = "AddonCreate"
    /\ Len(ops) = 4
    /\ ops[2].op = "build"
    /\ ops[3].op = "config"
    /\ ops[4].op = "build"
    /\ built[1].params.v.config = None
    /\ built[2].params.v.config = Some([k \in {"db-version"} |-> "1.2.3"])

\* the parameters of a descriptor, one slot per field a call can reach; the
\* nested source_blob of BuildCreate is opened into its three fields
Slots(d) ==
    IF d.name = "BuildCreate"
    THEN [s \in {"buildpacks", "source_blob.checksum", "source_blob.url",
                 "source_blob.version"} |->
            CASE s = "buildpacks" -> d.params.v.buildpacks
              [] s = "source_blob.checksum" -> d.params.v.source_blob.checksum
              [] s = "source_blob.url" -> d.params.v.source_blob.url
              [] OTHER -> d.params.v.source_blob.version]
    ELSE d.params.v

\* the field a setter is named after
SlotOf(op) ==
    CASE op = "attachment_name" -> "attachment"
      [] op = "buildpack" -> "buildpacks"
      [] op = "checksum" -> "source_blob.checksum"
      [] op = "version" -> "source_blob.version"
      [] OTHER -> op

\* the step just taken is a setter call on the builder
SetterStep == Len(ops') = Len(ops) + 1 /\ Last(ops').op \notin {"new", "build"}

\* C21: a setter call changes only its own field: the descriptor's kind and
\* identifier, the required parameters and every other optional parameter
\* are after the call exactly what they were before it, and the setter's own
\* field holds a value.
C21_SetterWritesOwnFieldOnly ==
    [][SetterStep
         => /\ builder'.name = builder.name
            /\ builder'.id = builder.id
            /\ DOMAIN Slots(builder') = DOMAIN Slots(builder)
            /\ SlotOf(Last(ops').op) \in DOMAIN Slots(builder)
            /\ \A s \in DOMAIN Slots(builder) \ {SlotOf(Last(ops').op)} :
                  Slots(builder')[s] = Slots(builder)[s]
            /\ Slots(builder')[SlotOf(Last(ops').op)].some]_vars

C21_Witness ==
    /\ builder.name = "AddonCreate"
    /\ Len(ops) = 4
    /\ ops[2].op = "name"
    /\ ops[3].op = "config"
    /\ ops[4].op = "confirm"
    /\ builder.id = ops[1].args[1]
    /\ builder.params.v.plan = ops[1].args[2]
    /\ builder.params.v.name = Some(ops[2].args[1])
    /\ builder.params.v.config = Some(ops[3].args[1])
    /\ builder.params.v.confirm = Some(ops[4].args[1])
    /\ builder.params.v.attachment = None

\* new (or the struct literal) of a descriptor kind, on the arguments given
Renew(name, args) ==
    CASE name = "AddonCreate" -> AddonCreate_new(args[1], args[2])
      [] name = "AddonResolutionCreate" -> AddonResolutionCreate_new(args[1])
      [] name = "AddonActionProvision" -> AddonActionProvision_new(args[1])
      [] name = "AddonActionDeprovision" -> AddonActionDeprovision_new(args[1])
      [] name = "AttachmentCreate" -> AttachmentCreate_new(args[1], args[2])
      [] name = "AttachmentResolutionCreate" -> AttachmentResolutionCreate_new(args[1])
      [] name = "WebhookCreate" -> WebhookCreate_new(args[1], args[2], args[3], args[4])
      [] name = "BuildCreate" -> BuildCreate_new(args[1], args[2])
      [] OTHER -> CollaboratorCreate(args[1], CollaboratorCreateParams(args[2], args[3]))

\* the setter `op` of the descriptor kind `name`, called on d with the
\* arguments given
SetCall(name, d, op, args) ==
    CASE name = "AddonCreate" /\ op = "attachment_name" -> AddonCreate_attachment_name(d, args[1])
      [] name = "AddonCreate" /\ op = "config" -> AddonCreate_config(d, args[1])
      [] name = "AddonCreate" /\ op = "confirm" -> AddonCreate_confirm(d, args[1])
      [] name = "AddonCreate" /\ op = "name" -> AddonCreate_name(d, args[1])
      [] name = "AddonResolutionCreate" /\ op = "addon_service" ->
            AddonResolutionCreate_addon_service(d, args[1])
      [] name = "AddonResolutionCreate" /\ op = "app" -> AddonResolutionCreate_app(d, args[1])
      [] name = "AttachmentCreate" /\ op = "confirm" -> AttachmentCreate_confirm(d, args[1])
      [] name = "AttachmentCreate" /\ op = "name" -> AttachmentCreate_name(d, args[1])
      [] name = "AttachmentCreate" /\ op = "namespace" -> AttachmentCreate_namespace(d, args[1])
      [] name = "AttachmentResolutionCreate" /\ op = "app" ->
            AttachmentResolutionCreate_app(d, args[1])
      [] name = "AttachmentResolutionCreate" /\ op = "addon_service" ->
            AttachmentResolutionCreate_addon_service(d, args[1])
      [] name = "WebhookCreate" /\ op = "authorization" -> WebhookCreate_authorization(d, args[1])
      [] name = "WebhookCreate" /\ op = "secret" -> WebhookCreate_secret(d, args[1])
      [] name = "BuildCreate" /\ op = "checksum" -> BuildCreate_checksum(d, args[1])
      [] name = "BuildCreate" /\ op = "version" -> BuildCreate_version(d, args[1])
      [] name = "BuildCreate" /\ op = "buildpack" -> BuildCreate_buildpack(d, args[1], args[2])
      [] OTHER -> d

\* build() of d's kind
BuildCall(d) ==
    CASE d.name = "AddonCreate" -> AddonCreate_build(d)
      [] d.name = "AddonResolutionCreate" -> AddonResolutionCreate_build(d)
      [] d.name = "AttachmentCreate" -> AttachmentCreate_build(d)
      [] d.name = "AttachmentResolutionCreate" -> AttachmentResolutionCreate_build(d)
      [] d.name = "WebhookCreate" -> WebhookCreate_build(d)
      [] d.name = "BuildCreate" -> BuildCreate_build(d)
      [] OTHER -> d

\* the setters of a descriptor kind, in the order the source declares them
Setters(name) ==
    CASE name = "AddonCreate" -> <<"attachment_name", "config", "confirm", "name">>
      [] name = "AddonResolutionCreate" -> <<"addon_service", "app">>
      [] name = "AttachmentCreate" -> <<"confirm", "name", "namespace">>
      [] name = "AttachmentResolutionCreate" -> <<"app", "addon_service">>
      [] name = "WebhookCreate" -> <<"authorization", "secret">>
      [] name = "BuildCreate" -> <<"checksum", "version", "buildpack">>
      [] OTHER -> <<>>

Reverse(s) == [i \in DOMAIN s |-> s[Len(s) + 1 - i]]

\* d after one call of each listed setter that the caller has used, each on
\* the arguments the caller passed to it last
RECURSIVE Replay(_, _, _)
Replay(name, d, setters) ==
    IF setters = <<>>
    THEN d
    ELSE Replay(name,
                IF WasSet(Head(setters))
                THEN SetCall(name, d, Head(setters), LastArgs(Head(setters)).v)
                ELSE d,
                Tail(setters))

\* the builder rebuilt from the last value per setter alone, in two orders
Canon == Replay(builder.name, Renew(builder.name, ops[1].args), Setters(builder.name))

CanonReversed ==
    Replay(builder.name, Renew(builder.name, ops[1].args), Reverse(Setters(builder.name)))

C23_TypedAndRawAgreeOnFailures ==
    pc = "done"
        => /\ ~is_success(response.status)
                => /\ \A T \in ResultTypes :
                        match_response(T, response) = match_raw_response(response)
                   /\ result = match_response(resultType, response)
                   /\ result = match_raw_response(response)
                   /\ result = Error(response.status,
                                     unwrap_or_default(json("HerokuApiError", response.body)))
           /\ is_success(response.status)
                => /\ match_raw_response(response) = Ok(response)
                   /\ \A T \in ResultTypes :
                        match_response(T, response) # match_raw_response(response)

C23_Witness ==
    /\ RawDone
    /\ response.status = 500
    /\ response.body = JsonBody(JObj([n \in {"id", "message"} |->
                           IF n = "id" THEN JStr("gone") ELSE JStr("not_found")]))
    /\ result = match_response("Addon", response)
    /\ result = Error(500, [type |-> "HerokuApiError", id |-> "gone",
                            message |-> "not_found", url |-> None])

\* C24: the success range of the classifier is exactly 200 to 299.  A status
\* below 200 or at or above 300 yields Error(status, envelope), the envelope
\* read from the body as an error and the result the same whatever the
\* success type; a status from 200 to 299 takes the success branch: the typed
\* classifier parses the body as the success type and returns Ok or Invalid
\* accordingly (Invalid for 204 with no content), the raw one returns Ok.
C24_SuccessRangeIs200To299 ==
    pc = "done"
        => /\ (response.status < 200 \/ response.status >= 300)
                => /\ result = Error(response.status,
                                     unwrap_or_default(json("HerokuApiError", response.body)))
                   /\ \A T \in ResultTypes : match_response(T, response) = result
           /\ (response.status >= 200 /\ response.status <= 299 /\ mode = "typed")
                => /\ json(resultType, response.body).ok
                        => result = Ok(json(resultType, response.body).value)
                   /\ ~json(resultType, response.body).ok
                        => result = Invalid(json(resultType, response.body).err)
           /\ (response.status >= 200 /\ response.status <= 299 /\ mode = "raw")
                => result = Ok(response)

C24_Witness ==
    /\ TypedDone
    /\ response.status = 204
    /\ response.body = EmptyBody
    /\ resultType = "Empty"
    /\ result = Invalid("eof")

====
